---- MODULE Spec2Model ----
(***************************************************************************)
(* Model of mdreg's MDReg class (src/src/mdreg/main.py): the alternating   *)
(* signal-fit / registration loop of fit(), the per-frame dispatch of      *)
(* fit_deformation() in its sequential and its multiprocessing form, and   *)
(* the convergence diagnostic _maxnorm.                                    *)
(*                                                                         *)
(* Representation.                                                         *)
(*  - An image stack is a sequence over time (t = 1..NT models the Python  *)
(*    index t-1) of frames; a frame is a function from pixels 1..NP to a   *)
(*    pixel value.  self.array[...,t] and self.coreg[:,t] are both the     *)
(*    t-th element; the layout (flat or spatial) is carried separately in  *)
(*    coreg_layout.  None is the empty sequence.                           *)
(*  - A float is a record [nan, x]: NaN, or the number x.                  *)
(*  - A deformation slice [w, f] is one frame's field f (pixel -> vector   *)
(*    of nd floats) and w, whether the slice of the np.empty buffer has    *)
(*    been assigned.                                                       *)
(*  - Norms are carried as their squares and precision as its square:      *)
(*    x |-> x^2 is strictly increasing on the non-negative reals, so every *)
(*    comparison and every maximum is preserved.                           *)
(*  - The mean over time of the constant model is the exact rational       *)
(*    <<sum, nt>>.                                                         *)
(***************************************************************************)
EXTENDS Integers, Sequences, FiniteSets, TLC

\* ------------------------------------------------------------ bounds
NT == 2
NP == 1
MaxIter == 2

Times == 1..NT
Pixels == 1..NP

\* ------------------------------------------------------------ floats
Num(x) == [nan |-> FALSE, x |-> x]
NaN == [nan |-> TRUE, x |-> 0]

FSub(a, b) == IF a.nan \/ b.nan THEN NaN ELSE Num(a.x - b.x)
FAdd(a, b) == IF a.nan \/ b.nan THEN NaN ELSE Num(a.x + b.x)
FSq(a) == IF a.nan THEN NaN ELSE Num(a.x * a.x)

\* (variant: a < b)
FLess(a, b) == ~a.nan /\ ~b.nan /\ a.x < b.x

\* Python's a <= b on floats: False as soon as one side is NaN
FLeq(a, b) == ~a.nan /\ ~b.nan /\ a.x <= b.x

\* ------------------------------------------------------------ images and fields
Frame(v) == [p \in Pixels |-> v]
ImgChoices == {Frame(1), Frame(2)}
\* input stacks: one whose frames all differ, one whose frames are all equal
Arrays == {[t \in Times |-> Frame(t)], [t \in Times |-> Frame(1)]}
Dims == {2, 3}

Vec(nd, first) == [k \in 1..nd |-> IF k = 1 THEN first ELSE Num(0)]
Field(nd, first) == [p \in Pixels |-> Vec(nd, first)]
ZeroField(nd) == Field(nd, Num(0))
DefChoices(nd) == {ZeroField(nd), Field(nd, Num(1)), Field(nd, NaN)}

\* What one call of a registration backend can do: return (warped, deformation
\* field), or raise.  The backends are external libraries (itk-elastix, dipy,
\* skimage), so the result is any of a small set of values.
\* (err names the exception of a call that raised)
Returned(w, f) == [ok |-> TRUE, warped |-> w, def |-> f, err |-> "none"]
Raised(nd) == [ok |-> FALSE, warped |-> Frame(0), def |-> ZeroField(nd), err |-> "backend"]
Outcomes(nd) ==
    {Returned(Frame(1), ZeroField(nd)), Returned(Frame(2), Field(nd, Num(1))), Raised(nd)}

Unwritten(nd) == [w |-> FALSE, f |-> ZeroField(nd)]
Written(f) == [w |-> TRUE, f |-> f]

Backends == {"elastix", "dipy", "skimage"}
Packages == Backends \cup {"other"}
PrecisionChoices == {Num(0), Num(1)}

\* shapes: self.array.shape is the spatial shape followed by the number of frames
array_shape(nd, nt) == [i \in 1..(nd + 1) |-> IF i = 1 THEN NP ELSE IF i = nd + 1 THEN nt ELSE 1]
\* the same with sl entries along the last spatial axis
shape_with_slices(nd, sl, nt) == [array_shape(nd, nt) EXCEPT ![nd] = sl]
NoMask == [arr |-> FALSE, shape |-> <<>>]
MaskOfShape(sh) == [arr |-> TRUE, shape |-> sh]
NoSlice == [none |-> TRUE, t |-> 0]
MaskSlice(t) == [none |-> FALSE, t |-> t]

\* ------------------------------------------------------------ _coregister_dipy
\* self.dipy after __init__
dipy_default == [transform |-> "Symmetric Diffeomorphic", metric |-> "Cross-Correlation"]
dipy_metrics == {"Cross-Correlation", "Expectation-Maximization", "Sum of Squared Differences"}
MinSlices == 6

\* (variant: nothing is checked before the registration)
_coregister_dipy_unchecked(dim, sl, parameters) == "none"

\* the checks _coregister_dipy makes, in its order, before it registers: which
\* one raises ValueError, or "none" when the registration goes ahead.  dim is
\* fixed.ndim and sl is fixed.shape[-1]
_coregister_dipy_checks(dim, sl, parameters) ==
    IF dim = 3 /\ sl < MinSlices THEN "slices"
    ELSE IF parameters.metric \notin dipy_metrics THEN "metric"
    ELSE IF parameters.transform # "Symmetric Diffeomorphic" THEN "transform"
    ELSE "none"
ValueError(nd, msg) == [ok |-> FALSE, warped |-> Frame(0), def |-> ZeroField(nd), err |-> msg]

\* ------------------------------------------------------------ _coregister_skimage
\* (variant: only the attachment is read)
skimage_keys_attachment == {"attachment"}

\* the keys _coregister_skimage reads from its parameters
skimage_keys == {"row_coords", "col_coords", "attachment"}
\* parameters[key] of a missing key
KeyError(nd) == [ok |-> FALSE, warped |-> Frame(0), def |-> ZeroField(nd), err |-> "KeyError"]

\* ------------------------------------------------------------ elastix parameters
\* An itk ParameterObject is a sequence of parameter maps; a parameter map is
\* a set of <<key, values>> pairs with one pair per key.  A Python dict is a
\* function from its keys.
default_bspline(d) ==
    << {<<"FixedImageDimension", <<d>>>>,
        <<"MovingImageDimension", <<d>>>>,
        <<"Registration", <<"MultiResolutionRegistration">>>>} >>

\* one_parameter_map_dict[i] = parameter_map[i] for i in parameter_map
map2dict(parameter_map) ==
    [i \in {e[1] : e \in parameter_map} |->
        (CHOOSE e \in parameter_map : e[1] = i)[2]]
\* AddParameterMap(one_map)
dict2map(one_map) == {<<i, one_map[i]>> : i \in DOMAIN one_map}

RECURSIVE elastix2dict_from(_, _)
elastix2dict_from(elastix_model_parameters, index) ==
    IF index > Len(elastix_model_parameters) THEN <<>>
    ELSE <<map2dict(elastix_model_parameters[index])>>
            \o elastix2dict_from(elastix_model_parameters, index + 1)

\* (variant: only the first parameter map is converted)
_elastix2dict_first_map(elastix_model_parameters) ==
    <<map2dict(elastix_model_parameters[1])>>

\* for index in range(GetNumberOfParameterMaps()): append the map's dictionary
_elastix2dict(elastix_model_parameters) == elastix2dict_from(elastix_model_parameters, 1)

RECURSIVE _dict2elastix(_)
\* a new ParameterObject; for one_map in the list: AddParameterMap(one_map)
_dict2elastix(list_dictionaries_parameters) ==
    IF list_dictionaries_parameters = <<>> THEN <<>>
    ELSE _dict2elastix(SubSeq(list_dictionaries_parameters, 1,
                              Len(list_dictionaries_parameters) - 1))
            \o <<dict2map(list_dictionaries_parameters[Len(list_dictionaries_parameters)])>>

\* ------------------------------------------------------------ the signal model
RECURSIVE SumOver(_, _, _)
SumOver(images, p, t) == IF t = 0 THEN 0 ELSE images[t][p] + SumOver(images, p, t - 1)

\* models/constant.py main(): the per-pixel mean over time, repeated for every t
constant_avr(images) == [p \in Pixels |-> <<SumOver(images, p, Len(images)), Len(images)>>]
constant_main_fit(images) == [t \in 1..Len(images) |-> constant_avr(images)]
constant_main_par(images) == [p \in Pixels |-> <<constant_avr(images)[p]>>]

\* ------------------------------------------------------------ _maxnorm
\* (variant: two components whatever the length of the axis)
SqNorm_two_components(v) == FAdd(FSq(v[1]), FSq(v[2]))

\* d[:,0,:]**2 + d[:,1,:]**2 (+ d[:,2,:]**2 when shape[1] == 3), per pixel and time
SqNorm(v) ==
    IF Len(v) = 3
    THEN FAdd(FAdd(FSq(v[1]), FSq(v[2])), FSq(v[3]))
    ELSE FAdd(FSq(v[1]), FSq(v[2]))

\* (variant: the first time point only)
SqNorms_first_frame(d) == {SqNorm(d[1][p]) : p \in Pixels}

SqNorms(d) == {SqNorm(d[t][p]) : t \in 1..Len(d), p \in Pixels}

\* (variant: 0 when every entry is NaN)
NanMax_zero_when_empty(S) ==
    LET valid == {a \in S : ~a.nan}
    IN IF valid = {} THEN Num(0)
       ELSE CHOOSE a \in valid : \A b \in valid : b.x <= a.x

\* np.nanmax: the largest entry that is not NaN; NaN when every entry is NaN
NanMax(S) ==
    LET valid == {a \in S : ~a.nan}
    IN IF valid = {} THEN NaN
       ELSE CHOOSE a \in valid : \A b \in valid : b.x <= a.x

_maxnorm(d) == NanMax(SqNorms(d))

\* (variant: the new field alone, not its difference with the previous one)
FieldDiff_new_only(old, new) ==
    [t \in 1..Len(old) |-> [p \in Pixels |-> [k \in 1..Len(old[t][p]) |->
        FSub(Num(0), new[t][p][k])]]]

\* self.deformation - deformation, elementwise
FieldDiff(old, new) ==
    [t \in 1..Len(old) |-> [p \in Pixels |-> [k \in 1..Len(old[t][p]) |->
        FSub(old[t][p][k], new[t][p][k])]]]

\* ------------------------------------------------------------ state
VARIABLES
    \* MDReg attributes (__init__)
    array, ndim, slices, coreg, coreg_layout, coreg_mask, package, parallel,
    elastix, elastix_added, dipy, skimage, max_iterations, precision,
    model_fit, pars, deformation, iter, iteration,
    \* locals of fit()
    pc, improvement, converged,
    \* locals of fit_deformation(): its deformation buffer, mask, loop index, pool
    ldef, mask, t, pool, args, pending, cursor, results,
    \* the process: live worker pools, the exception that left fit()
    pools, error,
    \* what was observed: the iteration named by fit_signal's message, the layout
    \* of the stack the signal model received at its last invocation, and the
    \* backend calls of the current fit_deformation, in the order they finished
    fit_iteration, fit_layout, calls,
    \* the backend: the library itself or the stub put in its place (stub),
    \* whether the library is deterministic and what it has answered (det, memo),
    \* and the field component a stub returns at its next call (mag)
    det, memo, stub, mag,
    \* a direct call of a module-level function: its argument and what it returned
    given, returned,
    \* the comparison of two fits of the same inputs: which fit runs, and what
    \* the first one produced
    run, first

config == <<package, parallel, max_iterations, precision>>
inputs == <<array, ndim, slices, coreg_mask, elastix, elastix_added, dipy, skimage>>
outputs == <<coreg, coreg_layout, model_fit, pars, deformation, iter, iteration>>
fitlocals == <<improvement, converged>>
deflocals == <<ldef, mask, t, args, pending, cursor, results>>
observed == <<fit_iteration, fit_layout, calls>>
stubstate == <<memo, mag>>
harness == <<det, stub, run, first, given, returned>>
vars == <<config, inputs, outputs, pc, fitlocals, deflocals, pool, pools, error, observed,
          stubstate, harness>>

\* self.elastix: the default parameter set of the dimension chosen by __init__
\* or set_array, followed by the maps of the files read since
parameter_object == default_bspline(elastix) \o elastix_added

\* a run whose budget can no longer stop it is cut off at this iteration, so
\* that a run that never stops stays finite
IterCap == MaxIter + 1

NoResult == [pc |-> "none", coreg |-> <<>>, deformation |-> <<>>, iter |-> <<>>]

\* the object after __init__ and after the caller has assigned the public
\* attributes package, parallel, max_iterations, precision and coreg_mask
Init ==
    /\ package \in Packages
    /\ parallel \in BOOLEAN
    /\ max_iterations \in 1..MaxIter
    /\ precision \in PrecisionChoices
    /\ coreg_mask \in {NoMask, MaskOfShape(array_shape(2, NT))}
    /\ array = <<>> /\ ndim = 0 /\ slices = 0
    /\ coreg = <<>> /\ coreg_layout = "none"
    /\ elastix = "2" /\ elastix_added = <<>>
    /\ dipy = dipy_default
    /\ skimage = {"attachment"}
    /\ model_fit = <<>> /\ pars = <<>> /\ deformation = <<>> /\ iter = <<>>
    /\ iteration = 1
    /\ pc = "idle"
    /\ improvement = <<>> /\ converged = FALSE
    /\ ldef = <<>> /\ mask = FALSE /\ t = 1
    /\ pool = "none" /\ args = <<>> /\ pending = {} /\ cursor = 1 /\ results = <<>>
    /\ pools = 0 /\ error = "none"
    /\ fit_iteration = 0 /\ fit_layout = "none" /\ calls = <<>>
    /\ det = FALSE /\ memo = {}
    /\ stub = "library" /\ mag = Num(0)
    /\ run = 1 /\ first = NoResult
    /\ given = <<>> /\ returned = <<>>

\* ------------------------------------------------------------ set_array, set_mask
\* a is the stack, d its number of spatial dimensions, sl its length along the
\* last spatial axis
set_array(a, d, sl) ==
    /\ pc = "idle"
    /\ array' = a /\ ndim' = d /\ slices' = sl
    /\ coreg' = a /\ coreg_layout' = "flat"
    /\ elastix' = IF d = 3 THEN "3" ELSE elastix
    /\ elastix_added' = IF d = 3 THEN <<>> ELSE elastix_added
    /\ skimage' = IF package = "skimage"
                  THEN skimage \cup {"row_coords", "col_coords"} ELSE skimage
    /\ UNCHANGED <<config, coreg_mask, dipy, model_fit, pars, deformation, iter, iteration,
                   pc, fitlocals, deflocals, pool, pools, error, observed, stubstate, harness>>

set_mask ==
    /\ pc = "idle" /\ array # <<>>
    /\ coreg_mask' = MaskOfShape(<<NP, Len(array)>>)
    /\ UNCHANGED <<config, array, ndim, slices, elastix, elastix_added, dipy, skimage, outputs, pc, fitlocals,
                   deflocals, pool, pools, error, observed, stubstate, harness>>

\* self.elastix.AddParameterFile(file): the file's parameter map is appended
read_elastix(file_map) ==
    /\ pc = "idle"
    /\ elastix_added' = Append(elastix_added, file_map)
    /\ UNCHANGED <<config, array, ndim, slices, coreg_mask, elastix, dipy, skimage, outputs,
                   pc, fitlocals, deflocals, pool, pools, error, observed, stubstate, harness>>

\* self.package = p, assigned by the caller
set_package(p) ==
    /\ pc = "idle"
    /\ package' = p
    /\ UNCHANGED <<parallel, max_iterations, precision, inputs, outputs, pc, fitlocals,
                   deflocals, pool, pools, error, observed, stubstate, harness>>

\* ------------------------------------------------------------ fit()
fit_start ==
    /\ pc = "idle" /\ array # <<>>
    /\ coreg' = array /\ coreg_layout' = "flat"
    /\ deformation' = [u \in 1..Len(array) |-> ZeroField(ndim)]
    /\ improvement' = <<>> /\ converged' = FALSE
    /\ iteration' = 1
    /\ pc' = "signal"
    /\ UNCHANGED <<config, inputs, model_fit, pars, iter, deflocals, pool, pools,
                   error, observed, stubstate, harness>>

\* the stack the signal model is fitted on
signal_input == coreg

fit_signal ==
    /\ pc = "signal"
    /\ model_fit' = constant_main_fit(signal_input)
    /\ pars' = constant_main_par(signal_input)
    /\ fit_iteration' = iteration
    /\ fit_layout' = coreg_layout
    /\ pc' = "deform"
    /\ UNCHANGED <<config, inputs, coreg, coreg_layout, deformation, iter, iteration,
                   fitlocals, deflocals, pool, pools, error, calls, stubstate, harness>>

\* ------------------------------------------------------------ fit_deformation()
\* (variant: any mask array is used, whatever its shape)
use_mask_unchecked == coreg_mask.arr

\* "If mask isn't same shape as images, then don't use it"
use_mask == coreg_mask.arr /\ coreg_mask.shape = shape_with_slices(ndim, slices, Len(array))

fit_deformation_entry ==
    /\ pc = "deform"
    /\ ldef' = [u \in 1..Len(array) |-> Unwritten(ndim)]
    /\ mask' = use_mask
    /\ t' = 1
    /\ calls' = <<>>
    /\ args' = <<>> /\ pending' = {} /\ cursor' = 1 /\ results' = <<>>
    /\ pc' = IF parallel THEN "par" ELSE "seq"
    /\ UNCHANGED <<config, inputs, outputs, fitlocals, pool, pools, error, fit_iteration, fit_layout,
                   stubstate, harness>>

mask_t(u) == IF mask THEN MaskSlice(u) ELSE NoSlice

\* (variant: the frame of the coregistered stack is registered again)
moving_frame_coreg(u) == coreg[u]

\* the frame handed to the backend as the moving image of time point u
moving_frame(u) == array[u]

Call(u, mv, fx, mk, pr, r) ==
    [t |-> u, moving |-> mv, fixed |-> fx, mask |-> mk, params |-> pr,
     iteration |-> iteration, out |-> r]

\* the parameter argument of the package's backend, as the sequential loop passes it
backend_parameters ==
    IF package = "elastix" THEN parameter_object
    ELSE IF package = "dipy" THEN dipy
    ELSE skimage
\* the same as the element of a task tuple: dict_param for elastix
task_parameters ==
    IF package = "elastix" THEN _elastix2dict(parameter_object) ELSE backend_parameters
\* what the worker hands to the backend: _coregister_elastix_parallel rebuilds
\* the parameter object from the list of dictionaries
worker_parameters(pr) == IF package = "elastix" THEN _dict2elastix(pr) ELSE pr

\* one call of the backend on (moving, fixed, mask): any outcome, or, for a
\* deterministic stub, the outcome it gave these arguments before
Key(mv, fx, mk) == [moving |-> mv, fixed |-> fx, mask |-> mk]
\* The backend replaced by a stub, as a test does.  The identity stub returns
\* its moving image and an all-zero field.  The other stubs return the moving
\* image and a field of one component, mag: the same at every call
\* ("constant"), or less at every call, by halving or by 0.01 pixel.  A
\* stub's magnitudes are integers in units of 0.01/Hundredth pixel.  The
\* "nan_or_zero" backend returns an all-NaN or a zero field, as it likes.
Hundredth == 12
stub_returns(k) ==
    IF stub = "identity" THEN Returned(k.moving, ZeroField(ndim))
    ELSE Returned(k.moving, Field(ndim, mag))
Shrunk(m) ==
    IF stub = "halving" THEN Num(m.x \div 2)
    ELSE IF stub = "decrement" THEN Num(m.x - Hundredth)
    ELSE m

Answers(k) ==
    IF stub = "nan_or_zero"
    THEN {Returned(k.moving, Field(ndim, NaN)), Returned(k.moving, ZeroField(ndim))}
    ELSE IF stub # "library" THEN {stub_returns(k)}
    ELSE IF package = "skimage" /\ ~(skimage_keys \subseteq backend_parameters)
    THEN {KeyError(ndim)}
    ELSE IF package = "dipy" /\ _coregister_dipy_checks(ndim, slices, dipy) # "none"
    THEN {ValueError(ndim, _coregister_dipy_checks(ndim, slices, dipy))}
    ELSE IF det /\ \E m \in memo : m[1] = k
    THEN {m[2] : m \in {n \in memo : n[1] = k}}
    ELSE Outcomes(ndim)
Remember(k, r) == IF det THEN memo \cup {<<k, r>>} ELSE memo

\* (variant: no try/except around the elastix call)
swallows_nothing(pkg) == FALSE

\* does the sequential loop swallow an exception of this package's backend
swallows(pkg) == pkg = "elastix"

\* (variant: the loop stops one frame short)
seq_done_early == t >= Len(array)

\* range(nt) is exhausted
seq_done == t > Len(array)

\* one pass of the sequential loop body "for t in range(nt)"
register_seq ==
    /\ pc = "seq" /\ ~seq_done
    /\ \/ /\ package \in Backends
          /\ \E r \in Answers(Key(moving_frame(t), model_fit[t], mask_t(t))) :
                /\ calls' = Append(calls, Call(t, moving_frame(t), model_fit[t], mask_t(t),
                                              backend_parameters, r))
                /\ memo' = Remember(Key(moving_frame(t), model_fit[t], mask_t(t)), r)
                /\ mag' = Shrunk(mag)
                /\ \/ /\ r.ok
                      /\ coreg' = [coreg EXCEPT ![t] = r.warped]
                      /\ ldef' = [ldef EXCEPT ![t] = Written(r.def)]
                      /\ t' = t + 1
                      /\ UNCHANGED <<pc, error>>
                   \/ /\ ~r.ok /\ swallows(package)
                      /\ t' = t + 1
                      /\ UNCHANGED <<coreg, ldef, pc, error>>
                   \/ /\ ~r.ok /\ ~swallows(package)
                      /\ pc' = "raised" /\ error' = r.err
                      /\ UNCHANGED <<coreg, ldef, t>>
       \/ /\ package \notin Backends
          /\ t' = t + 1
          /\ UNCHANGED <<coreg, ldef, pc, error, calls, stubstate>>
    /\ UNCHANGED <<config, inputs, coreg_layout, model_fit, pars, deformation, iter,
                   iteration, fitlocals, mask, args, pending, cursor, results,
                   pool, pools, fit_iteration, fit_layout, harness>>

seq_return ==
    /\ pc = "seq" /\ seq_done
    /\ pc' = "conv"
    /\ UNCHANGED <<config, inputs, outputs, fitlocals, deflocals, pool, pools, error, observed, stubstate, harness>>

\* ---- parallel mode
\* pool = multiprocessing.Pool(...), then the package's branch builds one task
\* tuple per time point and submits them; an unknown package takes no branch
pool_create ==
    /\ pc = "par"
    /\ pool' = "open" /\ pools' = pools + 1
    /\ IF package \in Backends
       THEN /\ args' = [u \in 1..Len(array) |->
                          [moving |-> moving_frame(u), fixed |-> model_fit[u],
                           params |-> task_parameters, mask |-> mask_t(u)]]
            /\ pending' = 1..Len(array)
            /\ pc' = "map"
       ELSE /\ pc' = "close"
            /\ UNCHANGED <<args, pending>>
    /\ UNCHANGED <<config, inputs, outputs, fitlocals, ldef, mask, t, cursor, results,
                   error, observed, stubstate, harness>>

\* a worker runs the task of time point u; tasks finish in any order
worker_run(u) ==
    /\ pc = "map" /\ u \in pending
    /\ \E r \in Answers(Key(args[u].moving, args[u].fixed, args[u].mask)) :
          /\ calls' = Append(calls, Call(u, args[u].moving, args[u].fixed, args[u].mask,
                                        worker_parameters(args[u].params), r))
          /\ memo' = Remember(Key(args[u].moving, args[u].fixed, args[u].mask), r)
          /\ mag' = Shrunk(mag)
    /\ pending' = pending \ {u}
    /\ UNCHANGED <<config, inputs, outputs, pc, fitlocals, ldef, mask, t, args, cursor,
                   results, pool, pools, error, fit_iteration, fit_layout, harness>>

\* the result of the task of time point u
TaskResult(cs, u) == cs[CHOOSE i \in 1..Len(cs) : cs[i].t = u].out

\* (variant: results in the order the tasks finished, as imap_unordered gives)
PoolResults_unordered(cs) == [u \in 1..Len(cs) |-> cs[u].out]

\* pool.map and pool.imap hand the results back in the order of the tasks
PoolResults(cs) == [u \in 1..Len(cs) |-> TaskResult(cs, u)]

\* results = list(pool.map(...)) (elastix): returns once every task has
\* finished, and raises if one of them raised
pool_map_return ==
    /\ pc = "map" /\ package = "elastix" /\ pending = {}
    /\ IF \A i \in 1..Len(calls) : calls[i].out.ok
       THEN /\ results' = PoolResults(calls)
            /\ pc' = "close"
            /\ UNCHANGED error
       ELSE /\ pc' = "raised" /\ error' = "backend"
            /\ UNCHANGED results
    /\ UNCHANGED <<config, inputs, outputs, fitlocals, ldef, mask, t, args, pending,
                   cursor, pool, pools, observed, stubstate, harness>>

\* results = list(pool.imap(...)) (dipy, skimage): the iterator yields the
\* results in task order as they become available and raises at the first
\* task that raised
pool_imap_next ==
    /\ pc = "map" /\ package \in {"dipy", "skimage"}
    /\ cursor <= Len(array) /\ cursor \notin pending
    /\ IF TaskResult(calls, cursor).ok
       THEN /\ cursor' = cursor + 1
            /\ UNCHANGED <<pc, error>>
       ELSE /\ pc' = "raised" /\ error' = TaskResult(calls, cursor).err
            /\ UNCHANGED cursor
    /\ UNCHANGED <<config, inputs, outputs, fitlocals, ldef, mask, t, args, pending,
                   results, pool, pools, observed, stubstate, harness>>

pool_imap_return ==
    /\ pc = "map" /\ package \in {"dipy", "skimage"}
    /\ cursor > Len(array)
    /\ results' = PoolResults(calls)
    /\ pc' = "close"
    /\ UNCHANGED <<config, inputs, outputs, fitlocals, ldef, mask, t, args, pending,
                   cursor, pool, pools, error, observed, stubstate, harness>>

\* pool.close(); pool.join()
pool_close_join ==
    /\ pc = "close"
    /\ pool' = "joined" /\ pools' = pools - 1
    /\ pc' = "gather"
    /\ UNCHANGED <<config, inputs, outputs, fitlocals, deflocals, error, observed, stubstate, harness>>

\* (variant: the results are read without waiting for close and join)
gather_without_join == pc \in {"close", "gather"}

\* may the results be copied into the stack
gather_ready == pc = "gather"

\* for t in range(nt): self.coreg[:,t] = results[t][0]; deformation[...,t] = results[t][1]
\* (results is unbound when no branch ran: NameError)
gather ==
    /\ gather_ready
    /\ IF results = <<>>
       THEN /\ pc' = "raised" /\ error' = "NameError"
            /\ UNCHANGED <<coreg, ldef>>
       ELSE /\ coreg' = [u \in 1..Len(array) |-> results[u].warped]
            /\ ldef' = [u \in 1..Len(array) |-> Written(results[u].def)]
            /\ pc' = "conv"
            /\ UNCHANGED error
    /\ UNCHANGED <<config, inputs, coreg_layout, model_fit, pars, deformation, iter,
                   iteration, fitlocals, mask, t, args, pending, cursor, results,
                   pool, pools, observed, stubstate, harness>>

\* ------------------------------------------------------------ fit(), after fit_deformation
\* (variant: strict comparison with the precision)
Converged_strict(imp, prec, it, maxit) == (~imp.nan /\ ~prec.nan /\ imp.x < prec.x) \/ it = maxit

\* (variant: the iteration budget is not tested)
Converged_no_budget(imp, prec, it, maxit) == FLeq(imp, prec)

\* (variant: the precision is not tested)
Converged_budget_only(imp, prec, it, maxit) == it = maxit

\* (variant: the budget test succeeds once the counter has passed the budget)
Converged_budget_passed(imp, prec, it, maxit) == FLeq(imp, prec) \/ it >= maxit

\* converged = improvement[-1] <= self.precision;
\* if self.iteration == self.max_iterations: converged = True
Converged(imp, prec, it, maxit) == FLeq(imp, prec) \/ it = maxit

\* the buffer as fit() reads it: a slice never assigned holds whatever np.empty left
Buffers ==
    {[u \in 1..Len(ldef) |-> IF ldef[u].w THEN ldef[u].f ELSE g[u]] :
        g \in [1..Len(ldef) -> DefChoices(ndim)]}

converge ==
    /\ pc = "conv"
    /\ \E d \in Buffers :
          /\ improvement' = Append(improvement, _maxnorm(FieldDiff(deformation, d)))
          /\ deformation' = d
    /\ converged' = Converged(improvement'[Len(improvement')], precision, iteration, max_iterations)
    /\ iteration' = iteration + 1
    /\ pc' = IF converged' THEN "final"
             ELSE IF iteration > max_iterations /\ iteration' > IterCap THEN "capped"
             ELSE "signal"
    /\ UNCHANGED <<config, inputs, coreg, coreg_layout, model_fit, pars, iter, deflocals,
                   pool, pools, error, observed, stubstate, harness>>

\* (variant: the fit of the last loop iteration is returned as it is)
refit_skipped == [fit |-> model_fit, pars |-> pars]

\* self.fit_signal() after the loop
refit == [fit |-> constant_main_fit(signal_input), pars |-> constant_main_par(signal_input)]

\* the signal fit after the loop, the reshapes, and self.iter
finalize ==
    /\ pc = "final"
    /\ model_fit' = refit.fit
    /\ pars' = refit.pars
    /\ fit_iteration' = iteration
    /\ fit_layout' = coreg_layout
    /\ coreg_layout' = "spatial"
    /\ iter' = improvement
    /\ pc' = "done"
    /\ UNCHANGED <<config, inputs, coreg, deformation, iteration, fitlocals, deflocals,
                   pool, pools, error, calls, stubstate, harness>>

\* ------------------------------------------------------------ _maxnorm, called directly
\* returned = _maxnorm(given)
call_maxnorm ==
    /\ given # <<>> /\ returned = <<>>
    /\ returned' = <<_maxnorm(given)>>
    /\ UNCHANGED <<config, inputs, outputs, pc, fitlocals, deflocals, pool, pools, error,
                   observed, stubstate, det, stub, run, first, given>>

\* ------------------------------------------------------------ specification
\* one object: configured, given its stack (and possibly a mask), then fit()
FitNext ==
    \/ fit_start
    \/ fit_signal
    \/ fit_deformation_entry
    \/ register_seq
    \/ seq_return
    \/ pool_create
    \/ \E u \in Times : worker_run(u)
    \/ pool_map_return
    \/ pool_imap_next
    \/ pool_imap_return
    \/ pool_close_join
    \/ gather
    \/ converge
    \/ finalize

Next ==
    \/ array = <<>> /\ \E a \in Arrays, d \in Dims : set_array(a, d, 1)
    \/ ~coreg_mask.arr /\ set_mask
    \/ FitNext

Spec == Init /\ [][Next]_vars

\* fit() alone, on a 2-D stack without a mask (neither the mask nor the
\* dimensionality decides which statement runs next)
LoopInit ==
    /\ package \in Packages
    /\ parallel \in BOOLEAN
    /\ max_iterations \in 1..MaxIter
    /\ precision \in PrecisionChoices
    /\ coreg_mask = NoMask
    /\ array = <<>> /\ ndim = 0 /\ slices = 0
    /\ coreg = <<>> /\ coreg_layout = "none"
    /\ elastix = "2" /\ elastix_added = <<>>
    /\ dipy = dipy_default
    /\ skimage = {"attachment"}
    /\ model_fit = <<>> /\ pars = <<>> /\ deformation = <<>> /\ iter = <<>>
    /\ iteration = 1
    /\ pc = "idle"
    /\ improvement = <<>> /\ converged = FALSE
    /\ ldef = <<>> /\ mask = FALSE /\ t = 1
    /\ pool = "none" /\ args = <<>> /\ pending = {} /\ cursor = 1 /\ results = <<>>
    /\ pools = 0 /\ error = "none"
    /\ fit_iteration = 0 /\ fit_layout = "none" /\ calls = <<>>
    /\ det = FALSE /\ memo = {}
    /\ stub = "library" /\ mag = Num(0)
    /\ run = 1 /\ first = NoResult
    /\ given = <<>> /\ returned = <<>>

LoopNext ==
    \/ array = <<>> /\ \E a \in Arrays : set_array(a, 2, 1)
    \/ FitNext

\* fit() runs to its end: the interpreter executes the next statement, and the
\* pool's workers execute the tasks submitted to them
FairSpec == LoopInit /\ [][LoopNext]_vars /\ WF_vars(LoopNext)

\* The same inputs fitted twice by a deterministic stub, once in each dispatch
\* mode: after the first fit() the caller flips self.parallel and calls fit()
\* again (fit() starts from a copy of self.array and a zero deformation field).
switch_mode ==
    /\ run = 1 /\ pc \in {"done", "raised"}
    /\ first' = [pc |-> pc, coreg |-> coreg, deformation |-> deformation, iter |-> iter]
    /\ parallel' = ~parallel
    /\ run' = 2
    /\ pc' = "idle" /\ error' = "none"
    /\ UNCHANGED <<package, max_iterations, precision, inputs, outputs, fitlocals,
                   deflocals, pool, pools, observed, stubstate, det, stub, given, returned>>

PairInit ==
    /\ package \in Backends
    /\ parallel \in BOOLEAN
    /\ max_iterations \in 1..MaxIter
    /\ precision \in PrecisionChoices
    /\ coreg_mask = NoMask
    /\ array = <<>> /\ ndim = 0 /\ slices = 0
    /\ coreg = <<>> /\ coreg_layout = "none"
    /\ elastix = "2" /\ elastix_added = <<>>
    /\ dipy = dipy_default
    /\ skimage = {"attachment"}
    /\ model_fit = <<>> /\ pars = <<>> /\ deformation = <<>> /\ iter = <<>>
    /\ iteration = 1
    /\ pc = "idle"
    /\ improvement = <<>> /\ converged = FALSE
    /\ ldef = <<>> /\ mask = FALSE /\ t = 1
    /\ pool = "none" /\ args = <<>> /\ pending = {} /\ cursor = 1 /\ results = <<>>
    /\ pools = 0 /\ error = "none"
    /\ fit_iteration = 0 /\ fit_layout = "none" /\ calls = <<>>
    /\ det = TRUE /\ memo = {}
    /\ stub = "library" /\ mag = Num(0)
    /\ run = 1 /\ first = NoResult
    /\ given = <<>> /\ returned = <<>>

PairNext ==
    \/ array = <<>> /\ \E a \in Arrays : set_array(a, 2, 1)
    \/ FitNext
    \/ switch_mode

PairSpec == PairInit /\ [][PairNext]_vars

Terminated == pc \in {"done", "raised"}

\* fit() with the dipy backend: the caller assigns self.dipy (the default, an
\* unknown metric or an unknown transform) and sets a 2-D or 3-D stack with
\* fewer than, or exactly, the number of slices dipy wants for a 3-D volume
dipy_choices ==
    {dipy_default,
     [dipy_default EXCEPT !.metric = "Mutual Information"],
     [dipy_default EXCEPT !.transform = "Affine"]}
slices_choices == {MinSlices - 1, MinSlices}

DipyInit ==
    /\ package = "dipy"
    /\ parallel \in BOOLEAN
    /\ max_iterations \in 1..MaxIter
    /\ precision \in PrecisionChoices
    /\ coreg_mask = NoMask
    /\ array = <<>> /\ ndim = 0 /\ slices = 0
    /\ coreg = <<>> /\ coreg_layout = "none"
    /\ elastix = "2" /\ elastix_added = <<>>
    /\ dipy \in dipy_choices
    /\ skimage = {"attachment"}
    /\ model_fit = <<>> /\ pars = <<>> /\ deformation = <<>> /\ iter = <<>>
    /\ iteration = 1
    /\ pc = "idle"
    /\ improvement = <<>> /\ converged = FALSE
    /\ ldef = <<>> /\ mask = FALSE /\ t = 1
    /\ pool = "none" /\ args = <<>> /\ pending = {} /\ cursor = 1 /\ results = <<>>
    /\ pools = 0 /\ error = "none"
    /\ fit_iteration = 0 /\ fit_layout = "none" /\ calls = <<>>
    /\ det = FALSE /\ memo = {}
    /\ stub = "library" /\ mag = Num(0)
    /\ run = 1 /\ first = NoResult
    /\ given = <<>> /\ returned = <<>>

DipyNext ==
    \/ array = <<>> /\ \E a \in Arrays, d \in Dims, sl \in slices_choices : set_array(a, d, sl)
    \/ fit_start
    \/ fit_signal
    \/ fit_deformation_entry
    \/ register_seq
    \/ seq_return
    \/ pool_create
    \/ \E u \in Times : worker_run(u)
    \/ pool_imap_next
    \/ pool_imap_return
    \/ pool_close_join
    \/ gather
    \/ converge
    \/ finalize

DipySpec == DipyInit /\ [][DipyNext]_vars

\* the attributes __init__ sets that the scenarios below leave at their defaults
Constructed ==
    /\ coreg_mask = NoMask
    /\ array = <<>> /\ ndim = 0 /\ slices = 0
    /\ coreg = <<>> /\ coreg_layout = "none"
    /\ elastix = "2" /\ elastix_added = <<>>
    /\ dipy = dipy_default
    /\ skimage = {"attachment"}
    /\ model_fit = <<>> /\ pars = <<>> /\ deformation = <<>> /\ iter = <<>>
    /\ iteration = 1
    /\ pc = "idle"
    /\ improvement = <<>> /\ converged = FALSE
    /\ ldef = <<>> /\ mask = FALSE /\ t = 1
    /\ pool = "none" /\ args = <<>> /\ pending = {} /\ cursor = 1 /\ results = <<>>
    /\ pools = 0 /\ error = "none"
    /\ fit_iteration = 0 /\ fit_layout = "none" /\ calls = <<>>
    /\ det = FALSE /\ memo = {}
    /\ run = 1 /\ first = NoResult
    /\ given = <<>> /\ returned = <<>>

\* fit() with the identity stub in the place of the backend, on a 2-D or a 3-D
\* stack, in either mode
IdentityInit ==
    /\ package \in Backends
    /\ parallel \in BOOLEAN
    /\ max_iterations \in 1..MaxIter
    /\ precision \in PrecisionChoices
    /\ stub = "identity" /\ mag = Num(0)
    /\ Constructed

IdentityNext ==
    \/ array = <<>> /\ \E a \in Arrays, d \in Dims : set_array(a, d, 1)
    \/ FitNext

IdentitySpec == IdentityInit /\ [][IdentityNext]_vars

\* fit() with a stub whose deformation shrinks at every call, precision = 0.01
\* and max_iterations = 10.  The stub keeps its magnitude in the process that
\* calls it, so the dispatch is the sequential one.  The first magnitude is a
\* power of two (halving) or one pixel (decrease by 0.01 pixel per call).
ScenarioIterations == 10
shrinking_stubs == {"halving", "decrement"}
first_magnitudes(s) == IF s = "halving" THEN {2^4, 2^9, 2^15} ELSE {100 * Hundredth}

ShrinkInit ==
    /\ package \in Backends
    /\ parallel = FALSE
    /\ max_iterations = ScenarioIterations
    /\ precision = Num(Hundredth * Hundredth)
    /\ stub \in shrinking_stubs
    /\ mag \in {Num(m) : m \in first_magnitudes(stub)}
    /\ Constructed

ShrinkNext ==
    \/ array = <<>> /\ \E a \in Arrays, d \in Dims : set_array(a, d, 1)
    \/ fit_start
    \/ fit_signal
    \/ fit_deformation_entry
    \/ register_seq
    \/ seq_return
    \/ converge
    \/ finalize

ShrinkSpec == ShrinkInit /\ [][ShrinkNext]_vars

\* fit() with a stub that returns the same field at every call, so that the
\* field of an iteration equals that of the iteration before: at iteration 1
\* when the stub's field is zero (the field before iteration 1 is zero), at
\* iteration 2 otherwise.  The budget goes one beyond MaxIter so that a fixed
\* point at iteration 2 can lie strictly inside it.
constant_magnitudes == {Num(0), Num(2), NaN}

FixedInit ==
    /\ package \in Backends
    /\ parallel \in BOOLEAN
    /\ max_iterations \in 1..(MaxIter + 1)
    /\ precision \in PrecisionChoices
    /\ stub = "constant"
    /\ mag \in constant_magnitudes
    /\ Constructed

FixedNext ==
    \/ array = <<>> /\ \E a \in Arrays : set_array(a, 2, 1)
    \/ FitNext

FixedSpec == FixedInit /\ [][FixedNext]_vars

\* _maxnorm called on a (pixels, spatial-dims, time) array whose second axis
\* has length 2, 3 or 4.  Each (pixel, time) entry is one of a few vectors:
\* zero, a 3-4-0 vector with a negative component, one with only its third and
\* later components set, one with NaN among the first two components, one
\* with NaN from the third component on, and a short one.
maxnorm_axis_lengths == {2, 3, 4}
Vec3(nd, a, b, c) == [k \in 1..nd |-> IF k = 1 THEN a ELSE IF k = 2 THEN b ELSE c]
maxnorm_vectors(nd) ==
    {Vec3(nd, Num(0), Num(0), Num(0)),
     Vec3(nd, Num(3), Num(-4), Num(0)),
     Vec3(nd, Num(0), Num(0), Num(6)),
     Vec3(nd, NaN, Num(0), Num(0)),
     Vec3(nd, Num(1), Num(0), NaN),
     Vec3(nd, Num(-1), Num(0), Num(0))}
maxnorm_arrays ==
    UNION {[Times -> [Pixels -> maxnorm_vectors(nd)]] : nd \in maxnorm_axis_lengths}

MaxnormInit ==
    /\ package = "elastix"
    /\ parallel = TRUE
    /\ max_iterations = 1
    /\ precision = Num(1)
    /\ stub = "library" /\ mag = Num(0)
    /\ coreg_mask = NoMask
    /\ array = <<>> /\ ndim = 0 /\ slices = 0
    /\ coreg = <<>> /\ coreg_layout = "none"
    /\ elastix = "2" /\ elastix_added = <<>>
    /\ dipy = dipy_default
    /\ skimage = {"attachment"}
    /\ model_fit = <<>> /\ pars = <<>> /\ deformation = <<>> /\ iter = <<>>
    /\ iteration = 1
    /\ pc = "idle"
    /\ improvement = <<>> /\ converged = FALSE
    /\ ldef = <<>> /\ mask = FALSE /\ t = 1
    /\ pool = "none" /\ args = <<>> /\ pending = {} /\ cursor = 1 /\ results = <<>>
    /\ pools = 0 /\ error = "none"
    /\ fit_iteration = 0 /\ fit_layout = "none" /\ calls = <<>>
    /\ det = FALSE /\ memo = {}
    /\ run = 1 /\ first = NoResult
    /\ given \in maxnorm_arrays /\ returned = <<>>

MaxnormNext == call_maxnorm

MaxnormSpec == MaxnormInit /\ [][MaxnormNext]_vars

\* fit() with a backend that returns, for each frame, its moving image and
\* either an all-NaN field or a zero field, with a budget of up to MaxIter + 2
\* iterations (two iterations of NaN differences and one after them fit in it)
NanInit ==
    /\ package \in Backends
    /\ parallel \in BOOLEAN
    /\ max_iterations \in 1..(MaxIter + 2)
    /\ precision \in PrecisionChoices
    /\ stub = "nan_or_zero" /\ mag = Num(0)
    /\ Constructed

NanNext ==
    \/ array = <<>> /\ \E a \in Arrays : set_array(a, 2, 1)
    \/ FitNext

NanSpec == NanInit /\ [][NanNext]_vars

\* an object on which the caller calls set_array (and set_mask) any number of
\* times, with 2-D and 3-D stacks in any order
ArrayInit ==
    /\ package \in Packages
    /\ parallel \in BOOLEAN
    /\ max_iterations = 1
    /\ precision \in PrecisionChoices
    /\ stub = "library" /\ mag = Num(0)
    /\ Constructed

ArrayNext ==
    \/ \E a \in Arrays, d \in Dims, sl \in slices_choices : set_array(a, d, sl)
    \/ set_mask

ArraySpec == ArrayInit /\ [][ArrayNext]_vars

\* ------------------------------------------------------------ parallel elastix
\* Parameter files are read before fit(); fit() runs in parallel mode with the
\* elastix backend (the identity stub in the place of itk).
MaxFiles == 2
elastix_file_maps ==
    { {<<"Transform", <<"EulerTransform">>>>},
      {<<"Transform", <<"BSplineTransform">>>>,
       <<"GridSpacingSchedule", <<"2.0", "1.0">>>>} }

ElastixInit ==
    /\ package = "elastix"
    /\ parallel = TRUE
    /\ max_iterations \in 1..MaxIter
    /\ precision \in PrecisionChoices
    /\ stub = "identity" /\ mag = Num(0)
    /\ Constructed

ElastixNext ==
    \/ Len(elastix_added) < MaxFiles /\ \E m \in elastix_file_maps : read_elastix(m)
    \/ array = <<>> /\ \E a \in Arrays, d \in Dims : set_array(a, d, 1)
    \/ fit_start
    \/ fit_signal
    \/ fit_deformation_entry
    \/ pool_create
    \/ \E u \in Times : worker_run(u)
    \/ pool_map_return
    \/ pool_close_join
    \/ gather
    \/ converge
    \/ finalize

ElastixSpec == ElastixInit /\ [][ElastixNext]_vars

\* ------------------------------------------------------------ _coregister_elastix: geometry
\* The spacings and origins _coregister_elastix gives to the downsampled and
\* the full-resolution images.  Spacings are whole numbers of a length unit;
\* an origin is kept exactly as <<numerator, 2>>.
MaxDownsample == 4
MaxSpacing == 4
Half(n) == <<n, 2>>

\* spacing_small = [spacing_large[1]*downsample, spacing_large[0]*downsample]
spacing_small(spacing_large, downsample) ==
    <<spacing_large[2] * downsample, spacing_large[1] * downsample>>
\* origin_large = [0,0]
origin_large == <<Half(0), Half(0)>>
\* origin_small = [(spacing_small[1] - spacing_large[1])/2,
\*                 (spacing_small[0] - spacing_large[0])/2]
origin_small(spacing_large, downsample) ==
    <<Half(spacing_small(spacing_large, downsample)[2] - spacing_large[2]),
      Half(spacing_small(spacing_large, downsample)[1] - spacing_large[1])>>

_coregister_elastix_geometry(spacing_large, downsample) ==
    [spacing_small |-> spacing_small(spacing_large, downsample),
     origin_small |-> origin_small(spacing_large, downsample),
     spacing_large |-> spacing_large,
     origin_large |-> origin_large]

call_coregister_elastix ==
    /\ given # <<>> /\ returned = <<>>
    /\ returned' = <<_coregister_elastix_geometry(given.spacing_large, given.downsample)>>
    /\ UNCHANGED <<config, inputs, outputs, pc, fitlocals, deflocals, pool, pools, error,
                   observed, stubstate, det, stub, run, first, given>>

geometry_inputs ==
    [spacing_large : (1..MaxSpacing) \X (1..MaxSpacing), downsample : 1..MaxDownsample]

GeometryInit ==
    /\ package = "elastix"
    /\ parallel = FALSE
    /\ max_iterations = 1
    /\ precision = Num(1)
    /\ stub = "library" /\ mag = Num(0)
    /\ coreg_mask = NoMask
    /\ array = <<>> /\ ndim = 0 /\ slices = 0
    /\ coreg = <<>> /\ coreg_layout = "none"
    /\ elastix = "2" /\ elastix_added = <<>>
    /\ dipy = dipy_default
    /\ skimage = {"attachment"}
    /\ model_fit = <<>> /\ pars = <<>> /\ deformation = <<>> /\ iter = <<>>
    /\ iteration = 1
    /\ pc = "idle"
    /\ improvement = <<>> /\ converged = FALSE
    /\ ldef = <<>> /\ mask = FALSE /\ t = 1
    /\ pool = "none" /\ args = <<>> /\ pending = {} /\ cursor = 1 /\ results = <<>>
    /\ pools = 0 /\ error = "none"
    /\ fit_iteration = 0 /\ fit_layout = "none" /\ calls = <<>>
    /\ det = FALSE /\ memo = {}
    /\ run = 1 /\ first = NoResult
    /\ given \in geometry_inputs /\ returned = <<>>

GeometryNext == call_coregister_elastix

GeometrySpec == GeometryInit /\ [][GeometryNext]_vars

\* ------------------------------------------------------------ public operations
\* fit_signal() called by the user, outside fit(): the signal model is fitted
\* on self.coreg as it is
call_fit_signal ==
    /\ pc \in {"idle", "done"} /\ array # <<>>
    /\ model_fit' = constant_main_fit(signal_input)
    /\ pars' = constant_main_par(signal_input)
    /\ fit_iteration' = iteration
    /\ fit_layout' = coreg_layout
    /\ UNCHANGED <<config, inputs, coreg, coreg_layout, deformation, iter, iteration, pc,
                   fitlocals, deflocals, pool, pools, error, calls, stubstate, harness>>

PublicInit ==
    /\ package \in Backends
    /\ parallel \in BOOLEAN
    /\ max_iterations \in 1..MaxIter
    /\ precision \in PrecisionChoices
    /\ stub = "identity" /\ mag = Num(0)
    /\ Constructed

PublicNext ==
    \/ \E a \in Arrays, d \in Dims : set_array(a, d, 1)
    \/ call_fit_signal
    \/ FitNext

PublicSpec == PublicInit /\ [][PublicNext]_vars

\* ------------------------------------------------------------ any budget
\* fit() with an iteration budget below 1, or of 1, and with a precision that
\* is a number or NaN
budget_choices == {-1, 0, 1}
BudgetInit ==
    /\ package \in {"elastix", "dipy"}
    /\ parallel \in BOOLEAN
    /\ max_iterations \in budget_choices
    /\ precision \in {Num(0), NaN}
    /\ stub = "library" /\ mag = Num(0)
    /\ Constructed

BudgetNext ==
    \/ array = <<>> /\ set_array([u \in Times |-> Frame(u)], 2, 1)
    \/ FitNext

BudgetSpec == BudgetInit /\ [][BudgetNext]_vars

\* ------------------------------------------------------------ choosing the package
\* The caller selects the package before or after set_array, sets the array
\* once or again, and runs fit() with the library backends.
SkimageInit ==
    /\ package = "elastix"
    /\ parallel \in BOOLEAN
    /\ max_iterations = 1
    /\ precision \in PrecisionChoices
    /\ stub = "library" /\ mag = Num(0)
    /\ Constructed

SkimageNext ==
    \/ \E p \in {"elastix", "skimage"} : p # package /\ set_package(p)
    \/ \E a \in Arrays : a # array /\ set_array(a, 2, 1)
    \/ FitNext

SkimageSpec == SkimageInit /\ [][SkimageNext]_vars

\* ============================================================ claims
InLoop == pc \in {"signal", "deform", "seq", "par", "map", "close", "gather", "conv"}
RegPhase == pc \in {"seq", "par", "map", "close", "gather", "conv"}
StopCond(i) == FLeq(improvement[i], precision) \/ i = max_iterations
CallsOf(u) == {i \in 1..Len(calls) : calls[i].t = u}

\* C1: fit() stops at the first iteration i (from 1) with improvement_i <=
\* precision (equality included) or i = max_iterations: while the loop runs, no
\* completed iteration met a stop condition, and once the loop is left the last
\* completed iteration met one and no earlier one did.
C1_StopsAtFirst ==
    /\ InLoop =>
          /\ iteration = Len(improvement) + 1
          /\ \A i \in 1..Len(improvement) : ~StopCond(i)
    /\ pc \in {"final", "done"} =>
          /\ Len(improvement) >= 1
          /\ iteration = Len(improvement) + 1
          /\ StopCond(Len(improvement))
          /\ \A i \in 1..(Len(improvement) - 1) : ~StopCond(i)

\* fit() returned after one iteration of a budget of two, stopped by an
\* improvement equal to the precision
C1_Witness ==
    /\ pc = "done" /\ max_iterations = 2 /\ Len(iter) = 1
    /\ precision = Num(1) /\ iter[1] = Num(1)

\* C2: for every max_iterations >= 1 and whatever the backend returns, fit()
\* terminates (returns or raises), it never logs more than max_iterations
\* iterations, and when no improvement reached the precision the log has
\* exactly max_iterations entries.
C2_Terminates ==
    /\ <>Terminated
    /\ [](pc = "done" =>
            /\ Len(iter) <= max_iterations
            /\ (\A i \in 1..Len(iter) : ~FLeq(iter[i], precision)) => Len(iter) = max_iterations)

\* fit() returned after the whole budget, no improvement having reached the precision
C2_Witness ==
    /\ pc = "done" /\ max_iterations = MaxIter /\ Len(iter) = MaxIter
    /\ \A i \in 1..Len(iter) : ~FLeq(iter[i], precision)

\* C3: when fit() has returned, model_fit and pars are the signal model's
\* output on the final coregistered stack; that fit ran after the loop (it
\* carries the counter's final value) and no registration ran after it.
C3_FinalFit ==
    pc = "done" =>
        /\ model_fit = constant_main_fit(coreg)
        /\ pars = constant_main_par(coreg)
        /\ fit_iteration = iteration
        /\ \A i \in 1..Len(calls) : calls[i].iteration < fit_iteration

\* fit() returned after one iteration whose registration changed the stack, so
\* that the fit made inside the loop (on the copy of the array) differs from
\* the fit of the final stack
C3_Witness ==
    /\ pc = "done" /\ Len(iter) = 1
    /\ constant_main_fit(coreg) # constant_main_fit(array)

\* C4: in every iteration the signal model is fitted on the current
\* coregistered stack before a frame is registered; every registration of frame
\* t gets the original array's frame t as moving image and frame t of the fit
\* of that same iteration as fixed image; a frame is registered at most once,
\* and exactly once when the registration phase of a backend is over.
C4_FitThenRegister ==
    /\ pc \in {"deform", "par", "map", "close", "gather"} => model_fit = constant_main_fit(coreg)
    /\ pc = "deform" =>
          /\ fit_iteration = iteration
          /\ \A i \in 1..Len(calls) : calls[i].iteration < iteration
    /\ RegPhase =>
          /\ fit_iteration = iteration
          /\ \A i \in 1..Len(calls) :
                /\ calls[i].moving = array[calls[i].t]
                /\ calls[i].fixed = model_fit[calls[i].t]
                /\ calls[i].iteration = iteration
          /\ \A u \in 1..Len(array) : Cardinality(CallsOf(u)) <= 1
    /\ (pc = "conv" /\ package \in Backends) =>
          \A u \in 1..Len(array) : Cardinality(CallsOf(u)) = 1

\* the second iteration's tasks have all run while the coregistered stack,
\* not yet touched in this iteration, differs from the original array
C4_Witness ==
    /\ pc = "map" /\ iteration = 2 /\ pending = {} /\ Len(calls) = Len(array)
    /\ coreg # array

\* C5: in parallel mode, whatever the order in which the tasks finish, the
\* results list and then the coregistered stack and the deformation buffer hold
\* at index t what the task of time point t returned.
C5_ByIndex ==
    /\ (parallel /\ pc \in {"close", "gather"} /\ results # <<>>) =>
          \A u \in 1..Len(array) : results[u] = TaskResult(calls, u)
    /\ (parallel /\ pc = "conv") =>
          \A u \in 1..Len(array) :
              /\ coreg[u] = TaskResult(calls, u).warped
              /\ ldef[u] = Written(TaskResult(calls, u).def)

\* the last task finished first, with a result different from the first task's,
\* and the results were gathered
C5_Witness ==
    /\ parallel /\ pc = "conv"
    /\ calls[1].t = Len(array) /\ calls[Len(calls)].t = 1
    /\ calls[1].out # calls[Len(calls)].out

\* C6: dispatch is a barrier.  In parallel mode the coregistered stack and the
\* deformation buffer are not written while a task is outstanding; in both
\* modes a diagnostic is appended only when all frames of the iteration have
\* been processed (all tasks finished and the pool joined, or the loop over t
\* exhausted).
C6_Step ==
    /\ (parallel /\ pc \in {"par", "map", "close", "gather"} /\ (coreg' # coreg \/ ldef' # ldef)) =>
          /\ pending = {}
          /\ \A u \in 1..Len(array) : CallsOf(u) # {}
    /\ Len(improvement') > Len(improvement) =>
          IF parallel
          THEN pending = {} /\ pool = "joined" /\ \A u \in 1..Len(array) : CallsOf(u) # {}
          ELSE t = Len(array) + 1
C6_Barrier == [][C6_Step]_vars

\* a parallel iteration is over: the pool is joined and the gathered stack
\* differs from the array
C6_Witness ==
    /\ parallel /\ pc = "final" /\ pool = "joined" /\ pools = 0
    /\ coreg # array

\* C7: with a deterministic stub and identical inputs, fit() in sequential and
\* in parallel mode end the same way with identical coregistered stacks,
\* deformation fields and improvement histories.
C7_SameInBothModes ==
    (run = 2 /\ pc \in {"done", "raised"}) =>
        /\ pc = first.pc
        /\ pc = "done" =>
              /\ coreg = first.coreg
              /\ deformation = first.deformation
              /\ iter = first.iter

\* C8: the deformation buffer handed to the convergence check is fully
\* populated: every slice has been written, with the field the backend
\* returned for that frame in this iteration.
C8_FullyPopulated ==
    (pc = "conv" /\ package \in Backends) =>
        \A u \in 1..Len(array) :
            /\ ldef[u].w
            /\ \E i \in CallsOf(u) : calls[i].out.ok /\ ldef[u].f = calls[i].out.def

\* C9: the pool is scoped to the dispatch: at most one pool is alive, and none
\* is alive outside the dispatch of a parallel fit_deformation, on whatever
\* path control left it.
C9_PoolScoped ==
    /\ pools <= 1
    /\ pc \notin {"map", "close"} => pools = 0

\* C10: elastix, sequential: when the registration of frame t raises, nothing
\* propagates, the loop goes on to frame t+1 so that every frame has been tried
\* when the loop ends, and frame t of the coregistered stack is left as it was
\* (only the step of frame t can write frame t; in iteration 1 it still is the
\* original frame).
C10_Step ==
    (pc = "seq" /\ package = "elastix" /\ ~parallel) =>
        /\ pc' \in {"seq", "conv"} /\ error' = "none"
        /\ \A u \in 1..Len(array) : u # t => coreg'[u] = coreg[u]
        /\ (Len(calls') > Len(calls) /\ ~calls'[Len(calls')].out.ok) =>
              /\ coreg' = coreg
              /\ t' = t + 1
              /\ pc' = "seq"
C10_Inv ==
    (package = "elastix" /\ ~parallel) =>
        /\ pc # "raised"
        /\ pc = "conv" =>
              /\ \A u \in 1..Len(array) : calls[u].t = u
              /\ iteration = 1 => \A u \in 1..Len(array) : ~calls[u].out.ok => coreg[u] = array[u]
C10_Swallowed == []C10_Inv /\ [][C10_Step]_vars

\* frame 1 raised in iteration 1, frame 2 was registered all the same and
\* changed the stack, and the loop over the frames has ended
C10_Witness ==
    /\ package = "elastix" /\ ~parallel /\ pc = "conv" /\ iteration = 1
    /\ ~calls[1].out.ok /\ calls[2].out.ok
    /\ coreg[1] = array[1] /\ coreg[2] # array[2]

\* C11: whenever the registration of some frame fails during fit(), in either
\* mode, fit() still completes: the failure never leaves fit() as an
\* exception, and the log fit() returns has one entry per executed iteration.
C11_LogDespiteFailures ==
    /\ pc = "raised" => error = "NameError"
    /\ pc = "done" => Len(iter) = iteration - 1

\* C12: dipy backend.  With an unknown metric, an unknown transform, or a 3-D
\* frame with fewer than 6 slices on its last axis, a registration call can
\* only raise, and that error aborts fit() in both modes: no frame is
\* registered twice, the first iteration is never completed (no diagnostic, no
\* second signal fit, no later iteration), and fit() does not return, so there
\* is no final model fit and no improvement log.  A 2-D frame never gets the
\* slice-count error.
C12_Rejected ==
    \/ dipy.metric \notin dipy_metrics
    \/ dipy.transform # "Symmetric Diffeomorphic"
    \/ (ndim = 3 /\ slices < MinSlices)
C12_DipyAborts ==
    /\ (package = "dipy" /\ array # <<>> /\ C12_Rejected) =>
          /\ pc \in {"idle", "signal", "deform", "seq", "par", "map", "raised"}
          /\ \A i \in 1..Len(calls) : ~calls[i].out.ok
          /\ \A u \in 1..Len(array) : Cardinality(CallsOf(u)) <= 1
          /\ ~parallel => Len(calls) <= 1
          /\ iteration = 1 /\ fit_iteration <= 1
          /\ improvement = <<>> /\ iter = <<>>
          /\ pc = "raised" => error \in {"slices", "metric", "transform"}
    /\ (package = "dipy" /\ ndim = 2) =>
          /\ error # "slices"
          /\ \A i \in 1..Len(calls) : calls[i].out.err # "slices"

\* a parallel fit of a 3-D stack with 5 slices: every task raised the
\* slice-count error and fit() was left by it
C12_Witness ==
    /\ package = "dipy" /\ parallel /\ pc = "raised" /\ error = "slices"
    /\ ndim = 3 /\ slices = MinSlices - 1
    /\ Len(calls) = Len(array)

\* C13: a mask whose shape differs from the stack's shape, or no mask at all,
\* is no mask in both modes: fit_deformation() decides so without raising,
\* every task tuple and every registration call carries mask = None, and the
\* call of frame t gets exactly the arguments it gets when no mask is set
\* (the original frame t, frame t of the fit, None).
C13_NoUsableMask ==
    array # <<>> /\ (~coreg_mask.arr \/ coreg_mask.shape # shape_with_slices(ndim, slices, Len(array)))
C13_Step ==
    (pc = "deform" /\ C13_NoUsableMask) =>
        /\ pc' \in {"seq", "par"} /\ error' = "none"
        /\ ~mask'
C13_Inv ==
    (C13_NoUsableMask /\ pc \notin {"idle", "signal", "deform"}) =>
        /\ ~mask
        /\ \A u \in 1..Len(args) : args[u].mask = NoSlice
        /\ \A i \in 1..Len(calls) : calls[i].mask = NoSlice
        /\ RegPhase =>
              \A i \in 1..Len(calls) :
                  Key(calls[i].moving, calls[i].fixed, calls[i].mask)
                      = Key(array[calls[i].t], model_fit[calls[i].t], NoSlice)
        /\ error \in {"none", "backend", "slices", "NameError"}
C13_MaskIgnored == []C13_Inv /\ [][C13_Step]_vars

\* a mask of another shape was set, and a parallel dispatch ran every frame
C13_Witness ==
    /\ coreg_mask.arr /\ C13_NoUsableMask
    /\ parallel /\ pc = "conv" /\ Len(calls) = Len(array)

\* C14: identity stub (moving image returned unchanged, all-zero field) and
\* the constant signal model, any precision >= 0: fit() never raises, the loop
\* is left after iteration 1, and then the coregistered stack equals the input
\* stack, the deformation field is all zero and the log is the single value 0.
C14_IdentityConverges ==
    stub = "identity" =>
        /\ pc \notin {"raised", "capped"}
        /\ InLoop => (iteration = 1 /\ improvement = <<>>)
        /\ pc \in {"final", "done"} =>
              /\ iteration = 2
              /\ improvement = <<Num(0)>>
              /\ coreg = array
              /\ deformation = [u \in 1..Len(array) |-> ZeroField(ndim)]
        /\ pc = "done" => (iter = <<Num(0)>> /\ model_fit = constant_main_fit(array))

\* a parallel fit of a 3-D stack of two different frames returned, with
\* precision 0 and a budget larger than one iteration
C14_Witness ==
    /\ stub = "identity" /\ pc = "done" /\ parallel
    /\ ndim = 3 /\ array[1] # array[2]
    /\ precision = Num(0) /\ max_iterations = MaxIter
    /\ Len(calls) = Len(array)

NonIncreasing(h) == \A i \in 1..(Len(h) - 1) : FLeq(h[i + 1], h[i])

\* C15 (as stated): with any stub whose magnitude strictly decreases at each
\* call, precision 0.01 and max_iterations 10, fit() converges before
\* iteration 10 and the improvement history is non-increasing.
C15_AnyShrinkingStub ==
    (stub \in shrinking_stubs /\ pc \in {"final", "done"}) =>
        /\ Len(improvement) < ScenarioIterations
        /\ NonIncreasing(improvement)

\* C15 (amended): with the halving stub, started at a magnitude of at most
\* 2^15 units (27.3 pixels), fit() never raises, the history is non-increasing
\* at every moment, and the loop is left before iteration 10 by an
\* improvement <= precision; the log is that history.
C15_HalvingStub ==
    stub = "halving" =>
        /\ pc \notin {"raised", "capped"}
        /\ NonIncreasing(improvement)
        /\ pc \in {"final", "done"} =>
              /\ Len(improvement) < ScenarioIterations
              /\ FLeq(improvement[Len(improvement)], precision)
        /\ pc = "done" => iter = improvement

\* the halving stub started at 2^15 units: fit() returned after 8 iterations
C15_Witness ==
    /\ stub = "halving" /\ pc = "done"
    /\ iter[1] = Num(2^15 * 2^15)
    /\ Len(iter) = 8

\* numerical equality of two fields (a NaN component equals nothing)
FieldsEqual(a, b) ==
    \A u \in 1..Len(a) : \A p \in Pixels : \A k \in 1..Len(a[u][p]) :
        /\ ~a[u][p][k].nan /\ ~b[u][p][k].nan
        /\ a[u][p][k].x = b[u][p][k].x
C16_FixedPoint == pc = "conv" /\ iteration <= 2 /\ FieldsEqual(deformation, deformation')

\* C16 (as stated): when the field of iteration i <= 2 equals that of
\* iteration i-1, the improvement at iteration i is exactly 0 and fit()
\* terminates with an iteration count strictly smaller than max_iterations.
C16_Step_AsStated ==
    (C16_FixedPoint /\ Len(improvement') > Len(improvement)) =>
        /\ improvement'[iteration] = Num(0)
        /\ pc' = "final"
        /\ iteration < max_iterations
C16_StopsInsideBudget == [][C16_Step_AsStated]_vars

\* C16 (amended): when the field of iteration i <= 2 equals that of iteration
\* i-1, the improvement at iteration i is exactly 0 and (precision >= 0) the
\* loop is left at iteration i, so that the log has i entries: strictly fewer
\* than max_iterations exactly when i < max_iterations.
C16_Step ==
    (C16_FixedPoint /\ Len(improvement') > Len(improvement)) =>
        /\ improvement'[iteration] = Num(0)
        /\ Len(improvement') = iteration
        /\ pc' = "final"
        /\ (Len(improvement') < max_iterations) <=> (iteration < max_iterations)
C16_StopsAtFixedPoint == [][C16_Step]_vars

\* the field of iteration 2 equalled the non-zero field of iteration 1, and
\* fit() returned after 2 iterations of a budget of MaxIter + 1
C16_Witness ==
    /\ stub = "constant" /\ pc = "done"
    /\ max_iterations = MaxIter + 1
    /\ Len(iter) = 2 /\ iter[1] # Num(0) /\ iter[2] = Num(0)

\* the Euclidean norm (squared) of one entry as the claim words it: 3
\* components when the axis has length 3, the first 2 otherwise
C17_Used(v) == IF Len(v) = 3 THEN {1, 2, 3} ELSE {1, 2}
C17_NormIsNaN(v) == \E k \in C17_Used(v) : v[k].nan
C17_SqNormOf(v) ==
    v[1].x * v[1].x + v[2].x * v[2].x + (IF Len(v) = 3 THEN v[3].x * v[3].x ELSE 0)
C17_Entries == {given[u][p] : u \in 1..Len(given), p \in Pixels}

\* C17: _maxnorm(d) is the maximum, over all pixels and time points, of the
\* Euclidean norm across the spatial-dims axis (3 components for length 3, 2
\* otherwise): it is the norm of some entry and no entry's norm exceeds it,
\* entries with a NaN norm left out (and never counted as a zero: with nothing
\* left the result is not 0); an all-zero array gives exactly 0.
C17_MaxOfNorms ==
    returned # <<>> =>
        LET real == {v \in C17_Entries : ~C17_NormIsNaN(v)}
        IN /\ real # {} =>
                 /\ ~returned[1].nan
                 /\ \E v \in real : returned[1].x = C17_SqNormOf(v)
                 /\ \A v \in real : C17_SqNormOf(v) <= returned[1].x
           /\ real = {} => returned[1] # Num(0)
           /\ (\A v \in C17_Entries : \A k \in 1..Len(v) : v[k] = Num(0)) => returned[1] = Num(0)

\* an array of axis length 3 with one entry of NaN norm, whose maximum is the
\* norm of an entry that has only its third component set
C17_Witness ==
    /\ returned = <<Num(36)>>
    /\ Len(given[1][1]) = 3
    /\ \E v \in C17_Entries : C17_NormIsNaN(v)

C18_AllNaN(d) == \A u \in 1..Len(d) : \A p \in Pixels : C17_NormIsNaN(d[u][p])
C18_Diagnosed == pc = "conv" /\ Len(improvement') > Len(improvement)

\* C18 (as stated): fit() does not raise on a difference of fields that holds
\* only NaN norms, and once a diagnostic was NaN the loop runs until the
\* iteration budget: a returned log with a NaN entry has max_iterations entries.
C18_NaNRunsToBudget ==
    /\ pc # "raised"
    /\ (pc = "done" /\ \E i \in 1..Len(iter) : iter[i].nan) => Len(iter) = max_iterations

\* C18 (amended): when the difference of fields of an iteration holds only NaN
\* norms, _maxnorm does not raise and the diagnostic is NaN (no number, so
\* neither 0 nor a low value); it does not satisfy improvement <= precision,
\* so that iteration ends the loop only if it is the last of the budget, and
\* otherwise the next iteration runs.
C18_Step ==
    (C18_Diagnosed /\ C18_AllNaN(FieldDiff(deformation, deformation'))) =>
        /\ improvement'[iteration] = NaN
        /\ ~FLeq(improvement'[iteration], precision)
        /\ converged' <=> iteration = max_iterations
        /\ iteration # max_iterations => (pc' = "signal" /\ iteration' = iteration + 1)
        /\ pc' # "raised"
C18_NaNNeverConverges == [][C18_Step]_vars

\* two iterations with NaN diagnostics, then a real one that converged before
\* the budget of MaxIter + 2 was used
C18_Witness ==
    /\ pc = "done" /\ max_iterations = MaxIter + 2
    /\ iter = <<NaN, NaN, Num(0)>>

\* x is the maximum of the Euclidean norms of d's entries, NaN norms left out
\* (NaN when none is left)
C19_IsMaxnorm(x, d) ==
    LET entries == {d[u][p] : u \in 1..Len(d), p \in Pixels}
        real == {v \in entries : ~C17_NormIsNaN(v)}
    IN IF real = {} THEN x.nan
       ELSE /\ ~x.nan
            /\ \E v \in real : x.x = C17_SqNormOf(v)
            /\ \A v \in real : C17_SqNormOf(v) <= x.x

\* C19: during a fit() the improvement history only grows, by one entry at the
\* end of each iteration: entry i is appended when iteration i is diagnosed,
\* it is maxnorm(field before iteration i - field of iteration i), the field
\* before iteration 1 being all zero, and the entries already there stay as
\* they are; the log fit() returns is this history.
C19_Step ==
    pc # "idle" =>
        /\ Len(improvement') >= Len(improvement)
        /\ SubSeq(improvement', 1, Len(improvement)) = improvement
        /\ Len(improvement') > Len(improvement) =>
              /\ pc = "conv"
              /\ improvement' = Append(improvement, improvement'[iteration])
              /\ Len(improvement') = iteration /\ iteration' = iteration + 1
              /\ C19_IsMaxnorm(improvement'[iteration], FieldDiff(deformation, deformation'))
              /\ iteration = 1 => deformation = [u \in 1..Len(array) |-> ZeroField(ndim)]
C19_Inv ==
    /\ (InLoop \/ pc \in {"final", "done"}) => Len(improvement) = iteration - 1
    /\ pc = "done" => iter = improvement
C19_AppendOnly == []C19_Inv /\ [][C19_Step]_vars

\* fit() returned a log of two different entries
C19_Witness ==
    /\ pc = "done" /\ Len(iter) = 2 /\ iter[1] # iter[2]
    /\ iter = improvement

\* C20: after any sequence of set_array calls, the image dimension of the
\* default elastix parameter set is the number of spatial dimensions (2 or 3)
\* of the array set last.
C20_ElastixDimension ==
    array # <<>> => elastix = (IF ndim = 3 THEN "3" ELSE "2")


\* ---- C21
\* the keys of a native parameter map
C21_Keys(parameter_map) == {e[1] : e \in parameter_map}
\* the list is a plain copy of the native object p: as many dictionaries as p
\* has maps, in the same order, each with the map's keys and values
C21_PlainCopy(l, p) ==
    /\ Len(l) = Len(p)
    /\ \A i \in 1..Len(p) :
          /\ DOMAIN l[i] = C21_Keys(p[i])
          /\ \A e \in p[i] : l[i][e[1]] = e[2]
\* the native object q has the maps of p, in the same order, each with the
\* same keys and values
C21_SameMaps(q, p) ==
    /\ Len(q) = Len(p)
    /\ \A i \in 1..Len(p) :
          /\ C21_Keys(q[i]) = C21_Keys(p[i])
          /\ \A e \in p[i] : e \in q[i]
          /\ \A e \in q[i] : e \in p[i]
C21_Inv ==
    (package = "elastix" /\ parallel)
        => /\ \A u \in 1..Len(args) :
                /\ args[u].params = args[1].params
                /\ C21_PlainCopy(args[u].params, parameter_object)
           /\ \A i \in 1..Len(calls) : C21_SameMaps(calls[i].params, parameter_object)
C21_Step == pc # "idle" => UNCHANGED <<elastix, elastix_added>>
\* C21: in parallel mode with the elastix backend every task tuple carries the
\* same plain list of parameter-map dictionaries, the object the worker
\* rebuilds from it has the maps of self.elastix (same number, same order, same
\* keys and values), and self.elastix is not changed by the fit.
C21_DictsCrossBoundary == [](C21_Inv) /\ [][C21_Step]_vars
\* a fit has run with a parameter object of two or more maps
C21_Witness ==
    /\ pc = "done" /\ package = "elastix" /\ parallel
    /\ Len(elastix_added) >= 1
    /\ Len(calls) >= 2
    /\ \A i \in 1..Len(calls) : Len(calls[i].params) = Len(elastix_added) + 1


\* ---- C22
\* the origin of the downsampled images follows the claim's formula, the two
\* origin entries taken in array order or in itk's reversed order
C22_OriginAsClaimed(r, sl, ds) ==
    \/ /\ r.origin_small[1] = Half((ds - 1) * sl[1])
       /\ r.origin_small[2] = Half((ds - 1) * sl[2])
    \/ /\ r.origin_small[1] = Half((ds - 1) * sl[2])
       /\ r.origin_small[2] = Half((ds - 1) * sl[1])
\* C22: for every downsample >= 1 and every per-axis spacing, equal or not, the
\* origin of the downsampled images is (downsample - 1) * spacing_axis / 2 on
\* each axis, 0 on every axis when downsample = 1, and the full-resolution
\* images keep origin 0.
C22_OriginHalfDifference ==
    returned # <<>> =>
        /\ C22_OriginAsClaimed(returned[1], given.spacing_large, given.downsample)
        /\ given.downsample = 1 => returned[1].origin_small = <<Half(0), Half(0)>>
        /\ returned[1].origin_large = <<Half(0), Half(0)>>


\* ---- C23
\* C23: in every sequence of set_array, fit and fit_signal each invocation of
\* the signal model receives the coregistered stack in flat (pixels, time)
\* layout, and the stack is in spatial layout only as the result of fit().
C23_SignalModelGetsFlat ==
    /\ fit_layout \in {"none", "flat"}
    /\ coreg_layout = "spatial" => pc = "done"


\* ---- C24
\* a mask was supplied through set_mask after set_array
C24_SuppliedBySetMask ==
    array # <<>> /\ coreg_mask.arr /\ coreg_mask.shape = <<NP, Len(array)>>
\* C24: when a mask of the stack's shape was supplied through set_mask, every
\* registration call of frame t, in both dispatch modes, receives the mask's
\* slice at time t rather than None.
C24_MaskSliceReachesBackend ==
    (C24_SuppliedBySetMask /\ RegPhase) =>
        /\ \A u \in 1..Len(args) : args[u].mask = MaskSlice(u)
        /\ \A i \in 1..Len(calls) : calls[i].mask = MaskSlice(calls[i].t)


\* ---- C25
C25_Inv ==
    /\ iteration >= 1
    \* the stop conditions are reached with the signal fit of this iteration
    \* made and every frame registered
    /\ pc = "conv" => /\ fit_iteration = iteration
                      /\ \A u \in 1..Len(array) : CallsOf(u) # {}
    \* the loop is left after one diagnostic at least
    /\ pc \in {"final", "done", "capped"} => Len(improvement) >= 1
    \* budget below 1: the loop is left only on the precision test
    /\ (max_iterations < 1 /\ pc \in {"final", "done"}) =>
          /\ FLeq(improvement[Len(improvement)], precision)
          /\ \A i \in 1..(Len(improvement) - 1) : ~FLeq(improvement[i], precision)
C25_Step ==
    /\ (converged' /\ ~converged) => (pc = "conv" /\ Len(improvement') = Len(improvement) + 1)
    /\ pc # "idle" => iteration' >= iteration
    /\ (max_iterations < 1 /\ pc = "conv"
            /\ ~FLeq(improvement'[Len(improvement')], precision))
          => (~converged' /\ pc' \in {"signal", "capped"})
\* C25: fit() makes one complete iteration (signal fit, registration of every
\* frame, diagnostic) before a stop condition is tested, whatever precision and
\* max_iterations are; with max_iterations < 1 the budget test never succeeds,
\* the loop is left only when an improvement is <= precision and goes on as
\* long as none is.
C25_BudgetBelowOne == [](C25_Inv) /\ [][C25_Step]_vars
\* a run with budget below 1 is still looping after more iterations than any
\* budget of the model, no improvement having been <= precision
C25_Witness ==
    /\ max_iterations < 1 /\ pc = "capped"
    /\ iteration > IterCap
    /\ \A i \in 1..Len(improvement) : ~FLeq(improvement[i], precision)


\* ---- C26
C26_UnknownPackage == package \notin Backends
\* sequential mode: no registration call, no error, the coregistered stack as
\* it was, and a field none of whose time slices was written
C26_Sequential ==
    (C26_UnknownPackage /\ ~parallel) =>
        /\ calls = <<>> /\ pools = 0
        /\ pc # "raised" /\ error = "none"
        /\ InLoop => coreg = array
        /\ pc \in {"seq", "conv"} => \A u \in 1..Len(ldef) : ~ldef[u].w
\* parallel mode: fit_deformation does not return, and no backend is called
C26_ParallelNoReturn ==
    (C26_UnknownPackage /\ parallel) =>
        /\ calls = <<>> /\ args = <<>>
        /\ pc \notin {"conv", "final", "done", "capped"}
\* as stated: the error is raised with the pool created and not yet closed
\* and joined
C26_RaisedBeforeClose ==
    /\ C26_Sequential
    /\ C26_ParallelNoReturn
    /\ (C26_UnknownPackage /\ parallel /\ pc = "raised") => (pool = "open" /\ pools = 1)
\* C26: with a backend tag other than 'elastix', 'dipy', 'skimage', sequential
\* fit_deformation calls no backend, raises nothing, leaves the coregistered
\* stack unchanged and returns a field with no time slice written; in parallel
\* mode it raises a NameError when it reads the results, after the pool was
\* created, closed and joined.
C26_RaisedAfterJoin ==
    /\ C26_Sequential
    /\ C26_ParallelNoReturn
    /\ (C26_UnknownPackage /\ parallel /\ pc = "raised") =>
          (error = "NameError" /\ pool = "joined" /\ pools = 0)
    /\ (C26_UnknownPackage /\ parallel /\ pool = "open") => pc # "raised"
\* the parallel dispatch of an unknown package has raised
C26_Witness ==
    /\ C26_UnknownPackage /\ parallel
    /\ pc = "raised" /\ error = "NameError"
    /\ pool = "joined" /\ iteration = 1


\* ---- C27
C27_Grids == {"row_coords", "col_coords"}
C27_HasGrids == C27_Grids \subseteq skimage
\* the grids are added by a set_array call made while package = 'skimage',
\* by nothing else, and are never removed
C27_Step ==
    /\ (pc = "idle" /\ array' # array) => (C27_HasGrids' <=> (C27_HasGrids \/ package = "skimage"))
    /\ array' = array => (C27_HasGrids' <=> C27_HasGrids)
    /\ (C27_HasGrids \/ C27_HasGrids') <=> (skimage' \cap C27_Grids # {})
\* without the grids the registration of the first frame fails and fit() does
\* not get past it; with them no call fails on a missing key
C27_Inv ==
    /\ array = <<>> => ~C27_HasGrids
    /\ (package = "skimage" /\ ~C27_HasGrids) =>
          /\ \A i \in 1..Len(calls) : calls[i].out.err = "KeyError"
          /\ ~parallel => (Len(calls) <= 1 /\ \A i \in 1..Len(calls) : calls[i].t = 1)
          /\ pc \notin {"conv", "final", "done", "capped"}
          /\ pc = "raised" => (error = "KeyError" /\ iteration = 1 /\ CallsOf(1) # {})
    /\ (package = "skimage" /\ C27_HasGrids) =>
          /\ \A i \in 1..Len(calls) : calls[i].out.err # "KeyError"
          /\ error # "KeyError"
\* C27: row_coords and col_coords are in the skimage parameter set if and only
\* if package was 'skimage' at a set_array call; selected only after set_array,
\* the first frame's registration fails in fit(); selected before set_array,
\* registration proceeds.
C27_GridsIffSelectedBefore == [](C27_Inv) /\ [][C27_Step]_vars
\* 'skimage' was selected after set_array and fit() failed at the first frame
C27_Witness ==
    /\ package = "skimage" /\ ~C27_HasGrids /\ array # <<>>
    /\ pc = "raised" /\ error = "KeyError"
\* 'skimage' was selected before set_array and fit() returned
C27_WitnessProceeds ==
    /\ package = "skimage" /\ C27_HasGrids /\ pc = "done"

====
